---- MODULE Spec2Model ----
(***************************************************************************)
(* Job dispatcher (worker.py) and file library (src/file_management.py)    *)
(* of wIsper_notes_local, sharing the job store audio_library/metadata.json*)
(* The dispatcher and the library are separate processes: every file-system*)
(* call and every whole-file load or save of the store is one step.        *)
(***************************************************************************)
EXTENDS Integers, Sequences, FiniteSets, TLC

\* ---------------------------------------------------------------- bounds
MaxClock == 1       \* the wall clock (seconds) runs over 0..MaxClock
MaxOps == 1         \* library operations started per run
MaxSegs == 3        \* segments the recogniser finds in one recording
MaxThreads == 3     \* threads of one process that use the models

\* ------------------------------------------------------- program constants
AUDIO_LIBRARY_PATH == <<>>          \* the library root; paths are relative to it
BaseNames == {"a"}                  \* names of uploaded files, without extension
DirNames == {"d"}                   \* folder names
Models == {"small"}                 \* the transcription model a user selects
MinSamples == 400                   \* shortest span the voice encoder is given
min_samples == 1                    \* DBSCAN(eps=0.5, min_samples=1, metric="cosine")
Voices == {"A", "B"}                \* voices whose embeddings lie more than eps apart

\* ---------------------------------------------------------------- state
VARIABLES
    now,        \* wall clock, datetime.now() in seconds
    files,      \* paths of the audio files on disk
    dirs,       \* paths of the folders on disk
    meta,       \* METADATA_FILE: [kind, data]
    backups,    \* timestamps t for which METADATA_FILE.bak_t exists
    faults,     \* 1 once the environment has made a call raise (OSError and the like)
    nops,       \* library operations started so far
    \* dispatcher process (worker.py main)
    wpc,                \* position in main / run_transcription_process
    files_to_process,   \* the part of the list the for loop has not reached
    relative_path, model, \* the job being run
    alive,              \* number of pipeline subprocesses alive
    outcome,            \* how communicate() ended: "exit", "timeout", "error"
    returncode, stdout, stderr,
    transcription, status,
    wmeta,              \* metadata loaded inside update_transcription_metadata
    \* library process (file_management.py called by the web layer)
    lpc,        \* "idle", "load", "save"
    lop,        \* the operation in progress
    lmeta,      \* metadata loaded by the operation in progress
    \* history
    written,    \* keys of the jobs whose result the dispatcher has saved
    job_file,   \* where the file of the running job is now (NoPath: deleted)
    \* one invocation of the pipeline (transcribir_con_diarizacion, transcribe_cli.py)
    impl,       \* the code that is invoked
    audio,      \* the audio input: its kind and what the recogniser hears in it
    ppc,        \* position in the pipeline
    temps,      \* temporary WAV files on disk
    temp_wav_path,
    segments,   \* list(segments_generator)
    embeddings, valid_segments, labels, diarization_results,
    ran,        \* history: the stages that have run
    ret,        \* what the invocation returned
    cli,        \* how the entry point process ended: [code, out, err]
    asr_model,  \* the model the recogniser ran with
    \* the models of one process (module level of src/audio_processing.py)
    cuda_available,     \* torch.cuda.is_available()
    sys_modules,        \* the module in sys.modules: "absent", "initializing", "ready"
    DEVICE, COMPUTE_TYPE,
    printed,            \* what the module body has printed
    loads,              \* the models loaded so far, as keys [id, device]; an instance is its index
    transcription_model, voice_encoder,     \* the module globals: an instance, 0 unbound
    tpc,                \* position of each thread
    got                 \* the instances each thread has used

envVars == <<now, files, dirs, meta, backups, faults, nops>>
jobVars == <<relative_path, model, outcome, returncode, stdout, stderr, transcription, status>>
workerVars == <<wpc, files_to_process, alive, wmeta, jobVars>>
libVars == <<lpc, lop, lmeta>>
histVars == <<written, job_file>>
pipeVars == <<impl, audio, ppc, temps, temp_wav_path, segments, embeddings,
              valid_segments, labels, diarization_results, ran, ret, cli, asr_model>>
regVars == <<cuda_available, sys_modules, DEVICE, COMPUTE_TYPE, printed, loads,
             transcription_model, voice_encoder, tpc, got>>
vars == <<envVars, workerVars, libVars, histVars, pipeVars, regVars>>

\* ------------------------------------------------- python dict as a value
\* A dict keeps insertion order: a sequence of [key, val] with distinct keys.
EmptyDict == <<>>
DictKeys(d) == {d[i].key : i \in DOMAIN d}
DictHas(d, k) == k \in DictKeys(d)
DictGet(d, k) == d[CHOOSE i \in DOMAIN d : d[i].key = k].val
DictSet(d, k, v) ==
    IF DictHas(d, k)
    THEN [i \in DOMAIN d |-> IF d[i].key = k THEN [key |-> k, val |-> v] ELSE d[i]]
    ELSE Append(d, [key |-> k, val |-> v])
DictDel(d, k) == SelectSeq(d, LAMBDA item : item.key # k)

\* entry[field] = v on a job entry (a dict with string keys, as a TLA+ function)
FieldSet(e, f, v) == [x \in (DOMAIN e) \cup {f} |-> IF x = f THEN v ELSE e[x]]
\* entry.get(field, default)
FieldGet(e, f, default) == IF f \in DOMAIN e THEN e[f] ELSE default

\* ------------------------------------------------------------------ text
\* A text is a sequence of tokens.  What a pipeline may write to stdout or
\* stderr: nothing, a word, a word inside white space, a word that names an error.
Texts == {<<>>, <<"hi">>, <<" ", "hi", " ">>, <<"Error">>}
IsSpace(tok) == tok \in {" ", "\n", "\n\n"}

RECURSIVE LStrip(_)
LStrip(t) == IF t # <<>> /\ IsSpace(Head(t)) THEN LStrip(Tail(t)) ELSE t
RECURSIVE RStrip(_)
RStrip(t) == IF t # <<>> /\ IsSpace(t[Len(t)]) THEN RStrip(SubSeq(t, 1, Len(t) - 1)) ELSE t
\* str.strip()
Strip(t) == RStrip(LStrip(t))

\* str.lower(), token by token
LowerTok(tok) ==
    CASE tok = "Error" -> "error"
      [] tok = "Transcription failed: " -> "transcription failed: "
      [] tok = "Transcription failed: Process timed out." -> "transcription failed: process timed out."
      [] tok = "Dispatcher error: " -> "dispatcher error: "
      [] tok = "ImportError: cannot import name 'transcribe_audio'" -> "importerror: cannot import name 'transcribe_audio'"
      [] tok = "Error: File not found at " -> "error: file not found at "
      [] tok = "An error occurred during transcription: " -> "an error occurred during transcription: "
      [] tok = "Error de FFMPEG: " -> "error de ffmpeg: "
      [] tok = "Ocurrió un error inesperado: " -> "ocurrió un error inesperado: "
      [] tok = "No se pudo transcribir el audio (posiblemente silencio)." -> "no se pudo transcribir el audio (posiblemente silencio)."
      [] OTHER -> tok
Lower(t) == [i \in DOMAIN t |-> LowerTok(t[i])]

\* the needles of worker.py:77 that occur in a lower-case token
Needles(tok) ==
    CASE tok = "error" -> {"error"}
      [] tok = "transcription failed: " -> {"failed"}
      [] tok = "transcription failed: process timed out." -> {"failed"}
      [] tok = "dispatcher error: " -> {"error"}
      [] tok = "importerror: cannot import name 'transcribe_audio'" -> {"error"}
      [] tok = "error: file not found at " -> {"error"}
      [] tok = "an error occurred during transcription: " -> {"error"}
      [] tok = "error de ffmpeg: " -> {"error"}
      [] tok = "ocurrió un error inesperado: " -> {"error"}
      [] OTHER -> {}
\* needle in text
Contains(t, needle) == \E i \in DOMAIN t : needle \in Needles(t[i])

\* --------------------------------------------------------------- paths
\* A path is the sequence of its components; "a/b" is <<"a", "b">>.
SafeName(base, ts) == base \o "_" \o ToString(ts) \o ".wav"
FileNames == {SafeName(b, t) : b \in BaseNames, t \in 0..MaxClock}
Folders == {<<>>} \cup {<<d>> : d \in DirNames}
Join(dir, name) == Append(dir, name)
Dirname(p) == SubSeq(p, 1, Len(p) - 1)
Basename(p) == p[Len(p)]
\* key.startswith(prefix + '/')
StartsWithDir(key, prefix) ==
    Len(key) > Len(prefix) /\ SubSeq(key, 1, Len(prefix)) = prefix
\* os.path.exists
Exists(p) == p \in files \/ p \in dirs \/ p = AUDIO_LIBRARY_PATH

\* ------------------------------------------------------- the store file
JsonFile(d) == [kind |-> "json", data |-> d]
FileKinds == {"missing", "empty", "json", "badjson", "badutf8"}

\* _load_metadata(): what it returns, whether it raises, whether it backs up
_load_metadata(m) ==
    CASE m.kind = "missing" -> [raised |-> FALSE, value |-> EmptyDict, backup |-> FALSE]
      [] m.kind = "empty"   -> [raised |-> FALSE, value |-> EmptyDict, backup |-> FALSE]
      [] m.kind = "json"    -> [raised |-> FALSE, value |-> m.data, backup |-> FALSE]
      [] m.kind = "badjson" -> [raised |-> FALSE, value |-> EmptyDict, backup |-> TRUE]
      [] m.kind = "badutf8" -> [raised |-> TRUE, value |-> EmptyDict, backup |-> FALSE]

\* the backup files after a load at time t
BackupsAfter(m, t) == IF _load_metadata(m).backup THEN backups \cup {t} ELSE backups

\* _save_metadata(metadata): the new content of the store file
_save_metadata(d) == JsonFile(d)

\* ------------------------------------------------------------ dispatcher
NoPath == <<>>
NoText == <<>>

\* worker.py:57-62: the Processing entries, in the store's order, each with its path
RECURSIVE ProcessingItems(_)
ProcessingItems(d) ==
    IF d = <<>> THEN <<>>
    ELSE LET data == Head(d).val
         IN  (IF FieldGet(data, "status", "None") = "Processing"
              THEN <<FieldSet(data, "path", Head(d).key)>>
              ELSE <<>>) \o ProcessingItems(Tail(d))

\* variant: a handler written for OSError only
LoopCatchesOSError(exc) == exc = "OSError"
\* worker.py:86: the exceptions the loop's handler catches (every Exception)
LoopCatches(exc) == TRUE
AfterRaise(exc) == IF LoopCatches(exc) THEN "except" ELSE "dead"

\* variant: the test for "failed" left out
StatusOfErrorOnly(text) ==
    IF ~Contains(Lower(text), "error") THEN "Completed" ELSE "Failed"
\* worker.py:77
StatusOf(text) ==
    IF ~Contains(Lower(text), "failed") /\ ~Contains(Lower(text), "error")
    THEN "Completed" ELSE "Failed"

\* worker.py:28-34: the value run_transcription_process returns on a normal exit
ExitResult(code, out, err) ==
    IF code = 0 THEN Strip(out) ELSE <<"Transcription failed: ">> \o Strip(err)

\* the ways a pipeline ends by itself: return code 0 with a transcript on
\* stdout, or return code 1 with a diagnostic on stderr
Exits ==
    {[code |-> 0, out |-> t, err |-> NoText] : t \in Texts} \cup
    {[code |-> 1, out |-> NoText, err |-> t] : t \in Texts}

\* variant: the subprocess is left running
KillForgotten(n) == n
\* worker.py:37,42: process.kill()
Kill(n) == n - 1

\* the locals of one job, cleared once the job is left
ClearJob ==
    /\ relative_path' = NoPath
    /\ model' = "base"
    /\ outcome' = "none"
    /\ returncode' = 0
    /\ stdout' = NoText
    /\ stderr' = NoText
    /\ transcription' = NoText
    /\ status' = "None"
    /\ job_file' = NoPath

\* an exception reaches main's try block: the rest of the cycle is abandoned
Raise(exc) ==
    /\ wpc' = AfterRaise(exc)
    /\ files_to_process' = <<>>
    /\ wmeta' = EmptyDict
    /\ ClearJob

\* worker.py:55-62
Poll ==
    /\ wpc = "poll"
    /\ LET r == _load_metadata(meta)
       IN  IF r.raised
           THEN /\ Raise("UnicodeDecodeError")
                /\ UNCHANGED backups
           ELSE /\ backups' = BackupsAfter(meta, now)
                /\ files_to_process' = ProcessingItems(r.value)
                /\ wpc' = "loop"
                /\ UNCHANGED <<wmeta, jobVars, job_file>>
    /\ UNCHANGED <<pipeVars, regVars, now, files, dirs, meta, faults, nops, alive, libVars, written>>

\* variant: a job whose file is missing is marked Failed instead of skipped
SkipMarksFailed ==
    /\ wpc = "loop"
    /\ files_to_process # <<>>
    /\ LET recording_data == Head(files_to_process)
       IN  /\ ~Exists(AUDIO_LIBRARY_PATH \o recording_data.path)
           /\ relative_path' = recording_data.path
           /\ model' = FieldGet(recording_data, "model", "base")
           /\ meta' = _save_metadata(
                  DictSet(_load_metadata(meta).value, recording_data.path,
                          [transcription |-> <<"Transcription failed: ">>, status |-> "Failed"]))
    /\ files_to_process' = Tail(files_to_process)
    /\ UNCHANGED <<pipeVars, regVars, now, files, dirs, backups, faults, nops, wpc, alive, wmeta, outcome, returncode, stdout, stderr, transcription, status, libVars, histVars>>

\* worker.py:66-73: the file of the next job is not on disk
Skip ==
    /\ wpc = "loop"
    /\ files_to_process # <<>>
    /\ LET recording_data == Head(files_to_process)
       IN  /\ ~Exists(AUDIO_LIBRARY_PATH \o recording_data.path)
           /\ relative_path' = recording_data.path
           /\ model' = FieldGet(recording_data, "model", "base")
    /\ files_to_process' = Tail(files_to_process)
    /\ UNCHANGED <<pipeVars, regVars, envVars, wpc, alive, wmeta, outcome, returncode, stdout, stderr, transcription, status, libVars, histVars>>

\* worker.py:66-75, 8-23: the file is on disk, Popen starts the pipeline
Launch ==
    /\ wpc = "loop"
    /\ files_to_process # <<>>
    /\ LET recording_data == Head(files_to_process)
       IN  /\ Exists(AUDIO_LIBRARY_PATH \o recording_data.path)
           /\ relative_path' = recording_data.path
           /\ model' = FieldGet(recording_data, "model", "base")
           /\ job_file' = recording_data.path
    /\ alive' = alive + 1
    /\ files_to_process' = Tail(files_to_process)
    /\ wpc' = "communicate"
    /\ UNCHANGED <<pipeVars, regVars, envVars, wmeta, outcome, returncode, stdout, stderr, transcription, status, libVars, written>>

\* worker.py:23: Popen raises (outside the try of run_transcription_process).
\* What makes a call raise can last: Popen, communicate and the write of the
\* store can raise at every attempt.
SpawnFails ==
    /\ wpc = "loop"
    /\ files_to_process # <<>>
    /\ Exists(AUDIO_LIBRARY_PATH \o Head(files_to_process).path)
    /\ faults' = 1
    /\ Raise("OSError")
    /\ UNCHANGED <<pipeVars, regVars, now, files, dirs, meta, backups, nops, alive, libVars, written>>

\* worker.py:64,90: the for loop is over
LoopEnd ==
    /\ wpc = "loop"
    /\ files_to_process = <<>>
    /\ wpc' = "sleep"
    /\ ClearJob
    /\ UNCHANGED <<pipeVars, regVars, envVars, files_to_process, alive, wmeta, libVars, written>>

\* worker.py:26-34, 77: the subprocess exits within the timeout
ProcExit ==
    /\ wpc = "communicate"
    /\ \E run \in Exits :
          /\ returncode' = run.code
          /\ stdout' = run.out
          /\ stderr' = run.err
          /\ transcription' = ExitResult(run.code, run.out, run.err)
          /\ status' = StatusOf(ExitResult(run.code, run.out, run.err))
    /\ outcome' = "exit"
    /\ alive' = alive - 1
    /\ wpc' = "update"
    /\ UNCHANGED <<pipeVars, regVars, envVars, files_to_process, wmeta, relative_path, model, libVars, histVars>>

\* worker.py:36-40, 77: communicate(timeout=600) expires
ProcTimeout ==
    /\ wpc = "communicate"
    /\ outcome' = "timeout"
    /\ alive' = Kill(alive)
    /\ transcription' = <<"Transcription failed: Process timed out.">>
    /\ status' = StatusOf(<<"Transcription failed: Process timed out.">>)
    /\ wpc' = "update"
    /\ UNCHANGED <<pipeVars, regVars, envVars, files_to_process, wmeta, relative_path, model, returncode, stdout, stderr, libVars, histVars>>

\* worker.py:41-44, 77: communicate raises something else
CommunicateRaises ==
    /\ wpc = "communicate"
    /\ faults' = 1
    /\ outcome' = "error"
    /\ alive' = Kill(alive)
    /\ transcription' = <<"Dispatcher error: ", "exc">>
    /\ status' = StatusOf(<<"Dispatcher error: ", "exc">>)
    /\ wpc' = "update"
    /\ UNCHANGED <<pipeVars, regVars, now, files, dirs, meta, backups, nops, files_to_process, wmeta, relative_path, model, returncode, stdout, stderr, libVars, histVars>>

\* variant: the entry of the job is replaced by a new one
WithResultReplaced(d, file_path, text, st) ==
    DictSet(d, file_path, [transcription |-> text, status |-> st])
\* file_management.py:254-265: the entry written for a job
WithResult(d, file_path, text, st) ==
    IF DictHas(d, file_path)
    THEN DictSet(d, file_path,
                 FieldSet(FieldSet(DictGet(d, file_path), "transcription", text), "status", st))
    ELSE DictSet(d, file_path, [transcription |-> text, status |-> st])

\* worker.py:79, file_management.py:254: update_transcription_metadata loads the store
UpdateLoad ==
    /\ wpc = "update"
    /\ LET r == _load_metadata(meta)
       IN  IF r.raised
           THEN /\ Raise("UnicodeDecodeError")
                /\ UNCHANGED backups
           ELSE /\ backups' = BackupsAfter(meta, now)
                /\ wmeta' = r.value
                /\ wpc' = "save"
                /\ UNCHANGED <<files_to_process, jobVars, job_file>>
    /\ UNCHANGED <<pipeVars, regVars, now, files, dirs, meta, faults, nops, alive, libVars, written>>

\* file_management.py:257-267: ... and saves it with the job's result
UpdateSave ==
    /\ wpc = "save"
    /\ meta' = _save_metadata(WithResult(wmeta, relative_path, transcription, status))
    /\ wpc' = "loop"
    /\ wmeta' = EmptyDict
    /\ ClearJob
    /\ written' = written \cup {relative_path}
    /\ UNCHANGED <<pipeVars, regVars, now, files, dirs, backups, faults, nops, files_to_process, alive, libVars>>

\* file_management.py:32: the save raises
UpdateSaveRaises ==
    /\ wpc = "save"
    /\ faults' = 1
    /\ Raise("OSError")
    /\ UNCHANGED <<pipeVars, regVars, now, files, dirs, meta, backups, nops, alive, libVars, written>>

\* worker.py:86-88
Except ==
    /\ wpc = "except"
    /\ wpc' = "sleep"
    /\ UNCHANGED <<pipeVars, regVars, envVars, files_to_process, alive, wmeta, jobVars, libVars, histVars>>

\* worker.py:90
Sleep ==
    /\ wpc = "sleep"
    /\ wpc' = "poll"
    /\ UNCHANGED <<pipeVars, regVars, envVars, files_to_process, alive, wmeta, jobVars, libVars, histVars>>

Dispatcher ==
    \/ Poll \/ Skip \/ Launch \/ SpawnFails \/ LoopEnd
    \/ ProcExit \/ ProcTimeout \/ CommunicateRaises
    \/ UpdateLoad \/ UpdateSave \/ UpdateSaveRaises
    \/ Except \/ Sleep

\* --------------------------------------------------------------- library
\* components in which the substring ".." occurs, and the root "/" an absolute
\* path starts with
DotDot == {"..", "a..wav"}
HasDotDot(path) == \E i \in DOMAIN path : path[i] \in DotDot
IsAbs(path) == IF path = <<>> THEN FALSE ELSE Head(path) = "/"
\* variant: only absolute paths are refused
InvalidAbsOnly(path) == IsAbs(path)
\* file_management.py:171, 175, 222, 250, 274, 318, 375, 140:
\* ".." in path or os.path.isabs(path)
Invalid(path) == HasDotDot(path) \/ IsAbs(path)

FilePaths == {Join(f, n) : f \in Folders, n \in FileNames}
DirPaths == Folders \ {AUDIO_LIBRARY_PATH}
Idle == [op |-> "none"]

\* the path of p after old has become new (p is old or lies under it):
\* file_management.py:298-304 and 355-361 compare the key with the path as given
Moved(p, old, new) ==
    IF p = old THEN new
    ELSE IF StartsWithDir(p, old) THEN new \o SubSeq(p, Len(old) + 1, Len(p))
    ELSE p

\* file_management.py:296-304, 353-361: the re-keyed copy of the store
RECURSIVE ReKey(_, _, _, _)
ReKey(updated, d, old, new) ==
    IF d = <<>> THEN updated
    ELSE ReKey(DictSet(updated, Moved(Head(d).key, old, new), Head(d).val), Tail(d), old, new)

\* variant: an upload onto an existing key sets the status in the entry it finds
NewStoreMerging(o, d) ==
    CASE o.op = "upload" -> DictSet(d, o.key,
                                    IF DictHas(d, o.key)
                                    THEN FieldSet(FieldSet(DictGet(d, o.key), "status", "Processing"),
                                                  "model", o.model)
                                    ELSE [status |-> "Processing", model |-> o.model])
      [] o.op = "delete" -> DictDel(d, o.key)
      [] o.op = "rename" -> ReKey(EmptyDict, d, o.old, o.new)
      [] o.op = "move"   -> ReKey(EmptyDict, d, o.old, o.new)
\* the store an operation saves, from the store it loaded
NewStore(o, d) ==
    CASE o.op = "upload" -> DictSet(d, o.key, [status |-> "Processing", model |-> o.model])
      [] o.op = "delete" -> DictDel(d, o.key)
      [] o.op = "rename" -> ReKey(EmptyDict, d, o.old, o.new)
      [] o.op = "move"   -> ReKey(EmptyDict, d, o.old, o.new)

\* The ways a caller writes the path of one item: "d/a.wav" and "./d/a.wav".
\* Neither holds "..", neither is absolute (file_management.py:274, 318).
RelativePaths(p) == {p, <<".">> \o p}
\* ... and the ways that hold ".." or are absolute: into a folder and back
\* ("d/../a.wav"), above the library ("../a.wav"), from the root ("/a.wav")
BadForms(p) == {<<d, "..">> \o p : d \in DirNames} \cup {<<"..">> \o p, <<"/">> \o p}

\* os.path.normpath of a joined path: "." is dropped, ".." takes the component
\* before it away, an absolute part discards what is before it
RECURSIVE Normpath(_, _)
Normpath(done, rest) ==
    IF rest = <<>> THEN done
    ELSE LET c == Head(rest)
         IN  IF c = "." THEN Normpath(done, Tail(rest))
             ELSE IF c = "/" THEN Normpath(<<"/">>, Tail(rest))
             ELSE IF c = ".."
             THEN IF done = <<>> \/ done[Len(done)] = ".." THEN Normpath(Append(done, ".."), Tail(rest))
                  ELSE IF done = <<"/">> THEN Normpath(done, Tail(rest))
                  ELSE Normpath(SubSeq(done, 1, Len(done) - 1), Tail(rest))
             ELSE Normpath(Append(done, c), Tail(rest))
\* os.path.abspath(os.path.join(library_root, relative_path)), seen from the root
Abspath(path) == Normpath(<<>>, path)
\* full_path.startswith(library_root)
InLibrary(p) == IF p = <<>> THEN TRUE ELSE Head(p) \notin {"..", "/"}

\* file_management.py:161-197: save_uploaded_file up to file_storage.save
UploadFile ==
    /\ lpc = "idle"
    /\ nops < MaxOps
    /\ \E base \in BaseNames, folder \in Folders, m \in Models :
        \E destination_folder \in {folder} \cup BadForms(folder) :
          LET filename == <<base \o ".wav">>
              destination_path == Abspath(destination_folder)
              save_path == Join(destination_path, SafeName(base, now))
          IN  /\ ~Invalid(filename)
              /\ ~Invalid(destination_folder)
              /\ InLibrary(destination_path)
              /\ dirs' = dirs \cup (IF destination_path = AUDIO_LIBRARY_PATH THEN {} ELSE {destination_path})
              /\ files' = files \cup {save_path}
              /\ lop' = [op |-> "upload", key |-> save_path, model |-> m,
                         paths |-> {filename, destination_folder}]
    /\ lpc' = "load"
    /\ nops' = nops + 1
    /\ UNCHANGED <<pipeVars, regVars, now, meta, backups, faults, workerVars, lmeta, histVars>>

\* file_management.py:218-231: delete_recording up to os.remove
DeleteFile ==
    /\ lpc = "idle"
    /\ nops < MaxOps
    /\ \E item \in FilePaths :
        \E file_path \in {item} \cup BadForms(item) :
          LET relative == Abspath(file_path)
          IN  /\ ~Invalid(file_path)
              /\ relative \in files
              /\ files' = files \ {relative}
              /\ job_file' = IF job_file = relative THEN NoPath ELSE job_file
              /\ lop' = [op |-> "delete", key |-> relative, paths |-> {file_path}]
    /\ lpc' = "load"
    /\ nops' = nops + 1
    /\ UNCHANGED <<pipeVars, regVars, now, dirs, meta, backups, faults, workerVars, lmeta, written>>

\* os.rename / shutil.move of a file or a folder with all it holds
DiskMove(old, new) ==
    /\ files' = {Moved(p, old, new) : p \in files}
    /\ dirs' = {Moved(p, old, new) : p \in dirs}

\* the new names a user gives to a file: a name an upload can produce too
NewNames == {SafeName(b, 1) : b \in BaseNames}

\* file_management.py:269-292: rename_item up to os.rename
RenameItem ==
    /\ lpc = "idle"
    /\ nops < MaxOps
    /\ \E item \in FilePaths \cup DirPaths, new_name \in NewNames \cup DirNames :
        \E given \in RelativePaths(item) \cup BadForms(item) :
          LET old == Abspath(given)
              new == Join(Dirname(old), new_name)
          IN  /\ ~Invalid(given)
              /\ InLibrary(old)
              /\ old \in files \cup dirs
              /\ ~Exists(new)
              /\ (old \in files) = (new_name \in NewNames)
              /\ DiskMove(old, new)
              /\ job_file' = Moved(job_file, old, new)
              /\ lop' = [op |-> "rename", old |-> given, new |-> new, paths |-> {given}]
    /\ lpc' = "load"
    /\ nops' = nops + 1
    /\ UNCHANGED <<pipeVars, regVars, now, meta, backups, faults, workerVars, lmeta, written>>

\* file_management.py:313-349: move_item up to shutil.move
MoveItem ==
    /\ lpc = "idle"
    /\ nops < MaxOps
    /\ \E item \in FilePaths \cup DirPaths, folder \in Folders :
        \E given \in RelativePaths(item) \cup BadForms(item), dest_relative_path \in {folder} \cup BadForms(folder) :
          LET old == Abspath(given)
              dest == Abspath(dest_relative_path)
              final == Join(dest, Basename(old))
          IN  /\ ~Invalid(given)
              /\ ~Invalid(dest_relative_path)
              /\ InLibrary(old)
              /\ InLibrary(dest)
              /\ old \in files \cup dirs
              /\ dest \notin files
              /\ ~Exists(final)
              /\ ~(old \in dirs /\ (dest = old \/ StartsWithDir(dest, old)))
              /\ files' = {Moved(p, old, final) : p \in files}
              /\ dirs' = {Moved(p, old, final) : p \in dirs \cup (IF dest = AUDIO_LIBRARY_PATH THEN {} ELSE {dest})}
              /\ job_file' = Moved(job_file, old, final)
              /\ lop' = [op |-> "move", old |-> given, new |-> final,
                         paths |-> {given, dest_relative_path}]
    /\ lpc' = "load"
    /\ nops' = nops + 1
    /\ UNCHANGED <<pipeVars, regVars, now, meta, backups, faults, workerVars, lmeta, written>>

\* file_management.py:200, 234, 295, 352: the operation loads the store
LibLoad ==
    /\ lpc = "load"
    /\ LET r == _load_metadata(meta)
       IN  IF r.raised
           THEN /\ lpc' = "idle" /\ lop' = Idle /\ lmeta' = EmptyDict
                /\ UNCHANGED backups
           ELSE /\ backups' = BackupsAfter(meta, now)
                /\ IF lop.op = "delete" /\ ~DictHas(r.value, lop.key)
                   THEN lpc' = "idle" /\ lop' = Idle /\ lmeta' = EmptyDict
                   ELSE lpc' = "save" /\ lop' = lop /\ lmeta' = r.value
    /\ UNCHANGED <<pipeVars, regVars, now, files, dirs, meta, faults, nops, workerVars, histVars>>

\* file_management.py:206, 238, 305, 362: ... and saves the changed store
LibSave ==
    /\ lpc = "save"
    /\ meta' = _save_metadata(NewStore(lop, lmeta))
    /\ written' = (CASE lop.op = "upload" -> written \ {lop.key}
                     [] lop.op = "delete" -> written \ {lop.key}
                     [] OTHER -> {Moved(k, lop.old, lop.new) : k \in written})
    /\ lpc' = "idle"
    /\ lop' = Idle
    /\ lmeta' = EmptyDict
    /\ UNCHANGED <<pipeVars, regVars, now, files, dirs, backups, faults, nops, workerVars, job_file>>

Library == UploadFile \/ DeleteFile \/ RenameItem \/ MoveItem \/ LibLoad \/ LibSave

\* ---- what the library shows (read-only calls of the web layer)
\* dict.get(key, default)
Get(d, k, default) == IF DictHas(d, k) THEN DictGet(d, k) ELSE default

\* file_management.py:37-103: the items listed for one folder, as a set (the
\* code sorts them by name, folders first).  Every file name of the model ends
\* in an audio extension.  A path with ".." or one that leaves the library
\* gives the empty list (43-52).
list_directory_contents(relative_dir_path) ==
    IF HasDotDot(relative_dir_path) \/ ~InLibrary(Abspath(relative_dir_path)) THEN {}
    ELSE IF ~Exists(Abspath(relative_dir_path)) THEN {}
    ELSE LET path_to_scan == Abspath(relative_dir_path)
             metadata == _load_metadata(meta).value
         IN  {[type |-> "folder", name |-> Basename(p), path |-> p]
                 : p \in {q \in dirs : Dirname(q) = path_to_scan}}
             \cup
             {[type |-> "file", fileName |-> Basename(p),
               status |-> FieldGet(Get(metadata, p, <<>>), "status", "Processing"),
               path |-> p]
                 : p \in {q \in files : Dirname(q) = path_to_scan}}

\* file_management.py:370-395
get_file_details(path) ==
    IF Invalid(path)
    THEN [code |-> 400, error |-> "Invalid file path"]
    ELSE IF ~InLibrary(Abspath(path)) \/ Abspath(path) \notin files
    THEN [code |-> 404, error |-> "File not found"]
    ELSE LET file_metadata == Get(_load_metadata(meta).value, path, <<>>)
         IN  [code |-> 200,
              fileName |-> Basename(path),
              path |-> path,
              status |-> FieldGet(file_metadata, "status", "Unknown"),
              transcription |-> FieldGet(file_metadata, "transcription", "None"),
              spectrogram |-> FieldGet(file_metadata, "spectrogram", "None")]

\* ---- calls that end in one step
\* what the library keeps of a call it has refused: the HTTP code it answers
\* with, NoCode when the function returns None
NoCode == 0
Rejected(fn, paths, code) == [op |-> "rejected", fn |-> fn, paths |-> paths, code |-> code]

\* the early return of a call: nothing is read, nothing is written
Reject(fn, paths, code) ==
    /\ lpc = "idle"
    /\ nops < MaxOps
    /\ lop' = Rejected(fn, paths, code)
    /\ nops' = nops + 1
    /\ UNCHANGED <<pipeVars, regVars, now, files, dirs, meta, backups, faults, workerVars, lpc, lmeta, histVars>>

\* file_management.py:169-184: save_uploaded_file returns 400
UploadInvalid ==
    \E filename \in {<<b \o ".wav">> : b \in BaseNames} \cup {<<"a..wav">>}, folder \in Folders :
        \E destination_folder \in {folder} \cup BadForms(folder) :
            /\ Invalid(filename) \/ Invalid(destination_folder) \/ ~InLibrary(Abspath(destination_folder))
            /\ Reject("save_uploaded_file", {filename, destination_folder}, 400)

\* file_management.py:222-223: delete_recording returns 400
DeleteInvalid ==
    \E item \in FilePaths : \E file_path \in BadForms(item) :
        /\ Invalid(file_path)
        /\ Reject("delete_recording", {file_path}, 400)

\* file_management.py:274-275: rename_item returns 400
RenameInvalid ==
    \E item \in FilePaths \cup DirPaths : \E given \in BadForms(item) :
        /\ Invalid(given)
        /\ Reject("rename_item", {given}, 400)

\* file_management.py:318-320, 330-331: move_item returns 400
MoveInvalid ==
    \E item \in FilePaths \cup DirPaths, folder \in Folders :
        \E given \in {item} \cup BadForms(item), dest_relative_path \in {folder} \cup BadForms(folder) :
            /\ Invalid(given) \/ Invalid(dest_relative_path) \/ ~InLibrary(Abspath(dest_relative_path))
            /\ Reject("move_item", {given, dest_relative_path}, 400)

\* file_management.py:140-149: create_folder returns 400
CreateFolderInvalid ==
    \E item \in DirPaths : \E new_folder_path \in BadForms(item) :
        /\ Invalid(new_folder_path) \/ ~InLibrary(Abspath(new_folder_path))
        /\ Reject("create_folder", {new_folder_path}, 400)

\* file_management.py:250-252: update_transcription_metadata prints and returns
UpdateInvalid ==
    \E item \in FilePaths : \E file_path \in BadForms(item) :
        /\ Invalid(file_path)
        /\ Reject("update_transcription_metadata", {file_path}, NoCode)

\* file_management.py:134-159: create_folder makes the folder
CreateFolder ==
    /\ lpc = "idle"
    /\ nops < MaxOps
    /\ \E item \in DirPaths : \E new_folder_path \in RelativePaths(item) \cup BadForms(item) :
          LET full_path == Abspath(new_folder_path)
          IN  /\ ~Invalid(new_folder_path)
              /\ InLibrary(full_path)
              /\ ~Exists(full_path)
              /\ dirs' = dirs \cup {full_path}
              /\ lop' = [op |-> "created", paths |-> {new_folder_path}, code |-> 201]
    /\ nops' = nops + 1
    /\ UNCHANGED <<pipeVars, regVars, now, files, meta, backups, faults, workerVars, lpc, lmeta, histVars>>

\* file_management.py:370-395: get_file_details, a call that reads only
GetFileDetails ==
    /\ lpc = "idle"
    /\ nops < MaxOps
    /\ ~_load_metadata(meta).raised
    /\ \E item \in FilePaths : \E path \in RelativePaths(item) \cup BadForms(item) :
          LET response == get_file_details(path)
          IN  lop' = IF response.code = 400
                     THEN Rejected("get_file_details", {path}, 400)
                     ELSE [op |-> "details", paths |-> {path}, response |-> response]
    /\ nops' = nops + 1
    /\ UNCHANGED <<pipeVars, regVars, now, files, dirs, meta, backups, faults, workerVars, lpc, lmeta, histVars>>

Refusals ==
    \/ UploadInvalid \/ DeleteInvalid \/ RenameInvalid \/ MoveInvalid
    \/ CreateFolderInvalid \/ UpdateInvalid

\* One second passes.  The clock is read by save_uploaded_file and when a
\* backup is named; a tick that nothing can read any more is left out.
Tick ==
    /\ now < MaxClock
    /\ (lpc = "idle" /\ nops < MaxOps) \/ _load_metadata(meta).backup
    /\ now' = now + 1
    /\ UNCHANGED <<pipeVars, regVars, files, dirs, meta, backups, faults, nops, workerVars, libVars, histVars>>

\* --------------------------------------------------- pipeline: the data
\* What the recogniser and the encoder find in one segment: the number of
\* samples of its span and the voice heard ("raise": embed_utterance raises).
SegmentKinds ==
    {[samples |-> n, voice |-> "none"] : n \in {0, MinSamples - 1}} \cup
    {[samples |-> MinSamples, voice |-> v] : v \in Voices \cup {"raise"}}
SegmentLists == UNION {[1..n -> SegmentKinds] : n \in 0..MaxSegs}

\* The audio inputs: no path at all, a path to nothing, a file ffmpeg or
\* librosa cannot decode, a file the recogniser fails on, a file with segments.
Audios ==
    {[kind |-> k, heard |-> <<>>] : k \in {"none", "missing", "corrupt", "asr_raises"}}
    \cup {[kind |-> "ok", heard |-> h] : h \in SegmentLists}

\* The segments of faster-whisper: consecutive spans (times counted in
\* samples), the text of segment i is the word wi after a blank.
RECURSIVE StartOf(_, _)
StartOf(heard, i) == IF i = 1 THEN 0 ELSE StartOf(heard, i - 1) + heard[i - 1].samples
MakeSegments(heard) ==
    [i \in DOMAIN heard |->
        [start |-> StartOf(heard, i),
         end |-> StartOf(heard, i) + heard[i].samples,
         text |-> <<" ", "w" \o ToString(i)>>,
         voice |-> heard[i].voice]]

\* len(segment_audio): the samples between segment.start and segment.end
SegmentAudioLen(segment) == segment.end - segment.start

\* " ".join(texts)
RECURSIVE JoinSp(_)
JoinSp(texts) ==
    IF texts = <<>> THEN <<>>
    ELSE IF Len(texts) = 1 THEN texts[1]
    ELSE texts[1] \o <<" ">> \o JoinSp(Tail(texts))

\* the value an invocation returns: (text, path); the text is a message, plain
\* text, or the transcript as the sequence of its **speaker:** blocks
None == "None"
NoRet == [how |-> "none"]
Returned(form, text, blocks, path) ==
    [how |-> "return", form |-> form, text |-> text, blocks |-> blocks, path |-> path]
Message(tok, path) == Returned("message", <<tok>>, <<>>, path)
Raised(exc) == [how |-> "raise", exc |-> exc]

\* ------------------------------------------------ pipeline: the stages
\* audio_processing.py:98-114, app.py:293-307: the segments that get an
\* embedding (a span below the guard is skipped, an exception drops the segment)
Embeddable(segment) == ~(SegmentAudioLen(segment) < MinSamples) /\ segment.voice # "raise"
ValidSegments(segs) == SelectSeq(segs, Embeddable)
\* the embedding of a segment is the voice it carries
Embeddings(segs) == [i \in DOMAIN ValidSegments(segs) |-> ValidSegments(segs)[i].voice]

\* DBSCAN over embeddings that are near each other exactly when they carry the
\* same voice: a point is a core point when its neighbourhood (itself included)
\* has at least m points; clusters are numbered as their first point is met;
\* a point in no cluster is noise, -1.
Neighbours(embs, i) == {j \in DOMAIN embs : embs[j] = embs[i]}
IsCore(embs, i, m) == Cardinality(Neighbours(embs, i)) >= m
First(embs, i) == CHOOSE j \in Neighbours(embs, i) : \A k \in Neighbours(embs, i) : j <= k
DBSCANWith(embs, m) ==
    [i \in DOMAIN embs |->
        IF ~IsCore(embs, i, m) THEN -1
        ELSE Cardinality({embs[j] : j \in {k \in 1..(First(embs, i) - 1) : IsCore(embs, k, m)}})]
\* variant: a cluster needs two points
DBSCANPairs(embs) == DBSCANWith(embs, 2)
\* audio_processing.py:124-125, app.py:313-314: clustering.labels_
DBSCAN(embs) == DBSCANWith(embs, min_samples)

\* audio_processing.py:128-131: diarization_results, keyed by (start, end)
SegmentKey(segment) == <<segment.start, segment.end>>
RECURSIVE DiarizationResults(_, _, _)
DiarizationResults(d, valid, labs) ==
    IF valid = <<>> THEN d
    ELSE DiarizationResults(DictSet(d, SegmentKey(Head(valid)), Head(labs)), Tail(valid), Tail(labs))

\* audio_processing.py:138-139, app.py:325, 333
SpeakerName(speaker_label) ==
    IF speaker_label # -1 THEN "Hablante " \o ToString(speaker_label + 1) ELSE "Desconocido"
LabelOf(diar, segment) ==
    IF DictHas(diar, SegmentKey(segment)) THEN DictGet(diar, SegmentKey(segment)) ELSE -1

\* audio_processing.py:135-144
FinalTranscription(segs, diar) ==
    [i \in DOMAIN segs |->
        [speaker |-> SpeakerName(LabelOf(diar, segs[i])),
         text |-> Strip(segs[i].text),
         start |-> segs[i].start]]

\* audio_processing.py:150-155: speaker_texts, a dict from speaker to its texts
RECURSIVE SpeakerTexts(_, _)
SpeakerTexts(d, items) ==
    IF items = <<>> THEN d
    ELSE LET item == Head(items)
             texts == IF DictHas(d, item.speaker) THEN DictGet(d, item.speaker) ELSE <<>>
         IN  SpeakerTexts(DictSet(d, item.speaker, Append(texts, item.text)), Tail(items))

\* audio_processing.py:162-165: the semantic chunker keeps the words of a text
\* in their order and cuts it into paragraphs; a short text is one paragraph
CreateDocuments(full_text) == <<full_text>>
RECURSIVE JoinParagraphs(_)
JoinParagraphs(docs) ==
    IF docs = <<>> THEN <<>>
    ELSE IF Len(docs) = 1 THEN docs[1]
    ELSE docs[1] \o <<"\n\n">> \o JoinParagraphs(Tail(docs))

\* audio_processing.py:146-170: one block per speaker, in the dict's order
GroupedTranscription(segs, diar) ==
    LET speaker_texts == SpeakerTexts(EmptyDict, FinalTranscription(segs, diar))
    IN  [i \in DOMAIN speaker_texts |->
            [speaker |-> speaker_texts[i].key,
             text |-> JoinParagraphs(CreateDocuments(JoinSp(speaker_texts[i].val)))]]

\* app.py:317-336: a block is closed when the label changes, the open block is
\* flushed at the end; only the segments of valid_segments are scanned
RECURSIVE AssembleApp(_, _, _, _, _)
AssembleApp(valid, labs, current_speaker_label, current_text, transcripcion) ==
    IF valid = <<>>
    THEN IF current_speaker_label # -1
         THEN Append(transcripcion,
                     [speaker |-> SpeakerName(current_speaker_label), text |-> Strip(current_text)])
         ELSE transcripcion
    ELSE LET speaker_label == Head(labs)
             closes == speaker_label # current_speaker_label /\ current_speaker_label # -1
         IN  AssembleApp(Tail(valid), Tail(labs), speaker_label,
                 (IF closes THEN <<>> ELSE current_text) \o <<" ">> \o Head(valid).text,
                 IF closes
                 THEN Append(transcripcion,
                             [speaker |-> SpeakerName(current_speaker_label),
                              text |-> Strip(current_text)])
                 ELSE transcripcion)

\* variant: the text of the segments that were embedded
PlainTextOfValid(segs) ==
    JoinSp([i \in DOMAIN SelectSeq(segs, Embeddable) |-> SelectSeq(segs, Embeddable)[i].text])
\* audio_processing.py:118, app.py:309: the text of all segments
PlainText(segs) == JoinSp([i \in DOMAIN segs |-> segs[i].text])

\* audio_processing.py:177-181: the finally clause
Finally(path, tmp) == IF path # None /\ path \in tmp THEN tmp \ {path} ELSE tmp

\* ------------------------------- pipeline: src/audio_processing.py, step by step
dispVars == <<envVars, workerVars, libVars, histVars>>
\* audio_processing.py:50, app.py:27: WhisperModel("base", ...), the one model
\* transcription_model.transcribe runs with
LoadedModel == "base"
TempFile == "tmp.wav"       \* the name tempfile.NamedTemporaryFile picks

\* the invocation ends: the value is returned and the finally clause has run
Return(value) ==
    /\ ret' = value
    /\ ppc' = "done"

\* audio_processing.py:73-81, 17-40, 172-173, 177-181: convert_audio_to_wav
Convert ==
    /\ impl = "audio_processing"
    /\ ppc = "start"
    /\ IF audio.kind = "none"
       THEN /\ Return(Message("No se recibió audio. Por favor, graba algo.", None))
            /\ UNCHANGED <<temps, temp_wav_path, ran>>
       ELSE IF audio.kind \in {"missing", "corrupt"}
       THEN \* the temporary file is created, ffmpeg fails, the exception is
            \* re-raised: temp_wav_path is still None when finally runs
            /\ Return(Message("Error de FFMPEG: ", None))
            /\ temps' = Finally(temp_wav_path, temps \cup {TempFile})
            /\ ran' = ran \cup {"convert"}
            /\ UNCHANGED temp_wav_path
       ELSE /\ temps' = temps \cup {TempFile}
            /\ temp_wav_path' = TempFile
            /\ ppc' = "transcribe"
            /\ ran' = ran \cup {"convert"}
            /\ UNCHANGED ret
    /\ UNCHANGED <<dispVars, regVars, impl, audio, asr_model, segments, embeddings, valid_segments, labels, diarization_results, cli>>

\* audio_processing.py:85-92, 174-181
Transcribe ==
    /\ impl = "audio_processing"
    /\ ppc = "transcribe"
    /\ asr_model' = LoadedModel
    /\ ran' = ran \cup {"transcribe"}
    /\ IF audio.kind = "asr_raises"
       THEN /\ Return(Message("Ocurrió un error inesperado: ", None))
            /\ temps' = Finally(temp_wav_path, temps)
            /\ UNCHANGED segments
       ELSE /\ segments' = MakeSegments(audio.heard)
            /\ IF MakeSegments(audio.heard) = <<>>
               THEN /\ Return(Message("No se pudo transcribir el audio (posiblemente silencio).", "audio_path"))
                    /\ temps' = Finally(temp_wav_path, temps)
               ELSE /\ ppc' = "embed"
                    /\ UNCHANGED <<ret, temps>>
    /\ UNCHANGED <<dispVars, regVars, impl, audio, temp_wav_path, embeddings, valid_segments, labels, diarization_results, cli>>

\* audio_processing.py:96-118, 177-181
Embed ==
    /\ impl = "audio_processing"
    /\ ppc = "embed"
    /\ ran' = ran \cup {"embed"}
    /\ embeddings' = Embeddings(segments)
    /\ valid_segments' = ValidSegments(segments)
    /\ IF ValidSegments(segments) = <<>>
       THEN /\ Return(Returned("plain", Strip(PlainText(segments)), <<>>, "audio_path"))
            /\ temps' = Finally(temp_wav_path, temps)
       ELSE /\ ppc' = "cluster"
            /\ UNCHANGED <<ret, temps>>
    /\ UNCHANGED <<dispVars, regVars, impl, audio, asr_model, temp_wav_path, segments, labels, diarization_results, cli>>

\* audio_processing.py:121-131
Cluster ==
    /\ impl = "audio_processing"
    /\ ppc = "cluster"
    /\ ran' = ran \cup {"cluster"}
    /\ labels' = DBSCAN(embeddings)
    /\ diarization_results' = DiarizationResults(EmptyDict, valid_segments, DBSCAN(embeddings))
    /\ ppc' = "assemble"
    /\ UNCHANGED <<dispVars, regVars, impl, audio, asr_model, temps, temp_wav_path, segments, embeddings, valid_segments, ret, cli>>

\* audio_processing.py:133-170, 177-181
Assemble ==
    /\ impl = "audio_processing"
    /\ ppc = "assemble"
    /\ ran' = ran \cup {"assemble"}
    /\ Return(Returned("blocks", <<>>, GroupedTranscription(segments, diarization_results), "audio_path"))
    /\ temps' = Finally(temp_wav_path, temps)
    /\ UNCHANGED <<dispVars, regVars, impl, audio, asr_model, temp_wav_path, segments, embeddings, valid_segments, labels, diarization_results, cli>>

\* ------------------------------------------------ pipeline: app.py, step by step
\* app.py:274-281: librosa.load
Load_app ==
    /\ impl = "app"
    /\ ppc = "start"
    /\ IF audio.kind = "none"
       THEN /\ Return(Message("No se recibió audio. Por favor, graba algo.", None))
            /\ UNCHANGED ran
       ELSE IF audio.kind \in {"missing", "corrupt"}
       THEN /\ Return(Message("Error al cargar el archivo de audio: ", None))
            /\ ran' = ran \cup {"convert"}
       ELSE /\ ppc' = "transcribe"
            /\ ran' = ran \cup {"convert"}
            /\ UNCHANGED ret
    /\ UNCHANGED <<dispVars, regVars, impl, audio, asr_model, temps, temp_wav_path, segments, embeddings, valid_segments, labels, diarization_results, cli>>

\* app.py:284-288: nothing catches what the recogniser raises
Transcribe_app ==
    /\ impl = "app"
    /\ ppc = "transcribe"
    /\ asr_model' = LoadedModel
    /\ ran' = ran \cup {"transcribe"}
    /\ IF audio.kind = "asr_raises"
       THEN /\ Return(Raised("Exception"))
            /\ UNCHANGED segments
       ELSE /\ segments' = MakeSegments(audio.heard)
            /\ IF MakeSegments(audio.heard) = <<>>
               THEN Return(Message("No se pudo transcribir el audio (posiblemente silencio).", "audio_path"))
               ELSE ppc' = "embed" /\ UNCHANGED ret
    /\ UNCHANGED <<dispVars, regVars, impl, audio, temps, temp_wav_path, embeddings, valid_segments, labels, diarization_results, cli>>

\* app.py:291-309
Embed_app ==
    /\ impl = "app"
    /\ ppc = "embed"
    /\ ran' = ran \cup {"embed"}
    /\ embeddings' = Embeddings(segments)
    /\ valid_segments' = ValidSegments(segments)
    /\ IF ValidSegments(segments) = <<>>
       THEN Return(Returned("plain", PlainText(segments), <<>>, "audio_path"))
       ELSE ppc' = "cluster" /\ UNCHANGED ret
    /\ UNCHANGED <<dispVars, regVars, impl, audio, asr_model, temps, temp_wav_path, segments, labels, diarization_results, cli>>

\* app.py:312-314
Cluster_app ==
    /\ impl = "app"
    /\ ppc = "cluster"
    /\ ran' = ran \cup {"cluster"}
    /\ labels' = DBSCAN(embeddings)
    /\ ppc' = "assemble"
    /\ UNCHANGED <<dispVars, regVars, impl, audio, asr_model, temps, temp_wav_path, segments, embeddings, valid_segments, diarization_results, ret, cli>>

\* app.py:317-336
Assemble_app ==
    /\ impl = "app"
    /\ ppc = "assemble"
    /\ ran' = ran \cup {"assemble"}
    /\ Return(Returned("blocks", <<>>, AssembleApp(valid_segments, labels, -1, <<>>, <<>>), "audio_path"))
    /\ UNCHANGED <<dispVars, regVars, impl, audio, asr_model, temps, temp_wav_path, segments, embeddings, valid_segments, labels, diarization_results, cli>>

\* ------------------------------------------- the entry point, transcribe_cli.py
\* the names src/audio_processing.py binds at module level
ModuleNames ==
    {"ffmpeg", "tempfile", "os", "WhisperModel", "gr", "VoiceEncoder", "np", "librosa",
     "DBSCAN", "torch", "SemanticChunker", "HuggingFaceEmbeddings",
     "convert_audio_to_wav", "DEVICE", "COMPUTE_TYPE", "transcription_model",
     "voice_encoder", "embeddings", "text_splitter", "transcribir_con_diarizacion"}
\* transcribe_cli.py:4: from src.audio_processing import <name>
ImportedName == "transcribe_audio"

Exit(code, out, err) == [code |-> code, out |-> out, err |-> err]
NoExit == [code |-> -1, out |-> NoText, err |-> NoText]

\* transcribe_cli.py:6-27: main, given how the call of line 22 ends
Main(a, call) ==
    IF a.kind = "missing"
    THEN Exit(1, NoText, <<"Error: File not found at ", "audio_path", "\n">>)
    ELSE IF call.how = "raise"
    THEN Exit(1, NoText, <<"An error occurred during transcription: ", call.exc, "\n">>)
    ELSE Exit(0, call.text \o <<"\n">>, NoText)

\* python transcribe_cli.py audio_path --model m: the import of line 4 runs
\* first; a name the module does not bind is an ImportError, which ends the
\* process with the traceback on stderr and exit code 1.  No function of the
\* module takes model_name, so a call as in line 22 would raise TypeError.
transcribe_cli(a) ==
    IF ImportedName \notin ModuleNames
    THEN Exit(1, NoText, <<"Traceback (most recent call last):", "\n",
                           "ImportError: cannot import name 'transcribe_audio'", "\n">>)
    ELSE Main(a, Raised("TypeError"))

\* the entry point runs as the dispatcher's subprocess
CliRun ==
    /\ impl = "cli"
    /\ ppc = "start"
    /\ audio.kind # "none"
    /\ cli' = transcribe_cli(audio)
    /\ ppc' = "done"
    /\ UNCHANGED <<dispVars, regVars, impl, audio, asr_model, temps, temp_wav_path, segments, embeddings, valid_segments, labels, diarization_results, ran, ret>>

\* worker.py:28-34, 77, 79: what the dispatcher records for a subprocess that ended so
RecordedText(c) == ExitResult(c.code, c.out, c.err)
RecordedStatus(c) == StatusOf(RecordedText(c))

\* ------------------------- the models of a process, audio_processing.py:42-63
\* The statements of section 3 stand at module level: they run when the module
\* body runs, which Python does for the first import of the module in a
\* process, under the import lock; every later import finds it in sys.modules.
Threads == 1..MaxThreads
\* variant: the models are loaded by every import
RunsBodyOnEveryImport(state) == TRUE
\* the module body runs for the first import only
RunsBody(state) == state = "absent"

\* audio_processing.py:45-46
DeviceFor(cuda) == IF cuda THEN "cuda" ELSE "cpu"
ComputeTypeFor(cuda) == IF cuda THEN "float16" ELSE "int8"

Key(id, device) == [id |-> id, device |-> device]
At(t, pc) == tpc' = [tpc EXCEPT ![t] = pc]

\* a thread imports the module (app.py:269, transcribe_cli.py:4); while another
\* thread runs the module body it waits for the import lock
Import(t) ==
    /\ tpc[t] = "start"
    /\ sys_modules # "initializing"
    /\ IF RunsBody(sys_modules)
       THEN sys_modules' = "initializing" /\ At(t, "device")
       ELSE At(t, "transcribe") /\ UNCHANGED sys_modules
    /\ UNCHANGED <<dispVars, pipeVars, cuda_available, DEVICE, COMPUTE_TYPE, printed, loads, transcription_model, voice_encoder, got>>

\* audio_processing.py:45-46
Device(t) ==
    /\ tpc[t] = "device"
    /\ DEVICE' = DeviceFor(cuda_available)
    /\ COMPUTE_TYPE' = ComputeTypeFor(cuda_available)
    /\ At(t, "whisper")
    /\ UNCHANGED <<dispVars, pipeVars, cuda_available, sys_modules, printed, loads, transcription_model, voice_encoder, got>>

\* audio_processing.py:49-51
LoadWhisper(t) ==
    /\ tpc[t] = "whisper"
    /\ printed' = printed \o <<"Cargando modelo de transcripción...", "Modelo de transcripción cargado.">>
    /\ loads' = Append(loads, Key(LoadedModel, DEVICE))
    /\ transcription_model' = Len(loads) + 1
    /\ At(t, "encoder")
    /\ UNCHANGED <<dispVars, pipeVars, cuda_available, sys_modules, DEVICE, COMPUTE_TYPE, voice_encoder, got>>

\* audio_processing.py:54-56
LoadEncoder(t) ==
    /\ tpc[t] = "encoder"
    /\ printed' = printed \o <<"Cargando modelo de codificación de voz...", "Modelo de codificación de voz cargado.">>
    /\ loads' = Append(loads, Key("VoiceEncoder", "cpu"))
    /\ voice_encoder' = Len(loads) + 1
    /\ At(t, "chunker")
    /\ UNCHANGED <<dispVars, pipeVars, cuda_available, sys_modules, DEVICE, COMPUTE_TYPE, transcription_model, got>>

\* audio_processing.py:59-63: the last statements of the module body
LoadChunker(t) ==
    /\ tpc[t] = "chunker"
    /\ printed' = printed \o <<"Cargando modelo de embeddings...", "Modelo de embeddings cargado.">>
    /\ loads' = Append(loads, Key("all-MiniLM-L6-v2", "cpu"))
    /\ sys_modules' = "ready"
    /\ At(t, "transcribe")
    /\ UNCHANGED <<dispVars, pipeVars, cuda_available, DEVICE, COMPUTE_TYPE, transcription_model, voice_encoder, got>>

\* audio_processing.py:85: the invocation of the thread reads the global
UseTranscriber(t) ==
    /\ tpc[t] = "transcribe"
    /\ got' = [got EXCEPT ![t].asr = transcription_model]
    /\ At(t, "embed")
    /\ UNCHANGED <<dispVars, pipeVars, cuda_available, sys_modules, DEVICE, COMPUTE_TYPE, printed, loads, transcription_model, voice_encoder>>

\* audio_processing.py:110
UseEncoder(t) ==
    /\ tpc[t] = "embed"
    /\ got' = [got EXCEPT ![t].enc = voice_encoder]
    /\ At(t, "done")
    /\ UNCHANGED <<dispVars, pipeVars, cuda_available, sys_modules, DEVICE, COMPUTE_TYPE, printed, loads, transcription_model, voice_encoder>>

ModuleBody(t) == Device(t) \/ LoadWhisper(t) \/ LoadEncoder(t) \/ LoadChunker(t)
Thread(t) == Import(t) \/ ModuleBody(t) \/ UseTranscriber(t) \/ UseEncoder(t)

\* ----------------------------------------------------------- specification
\* The library the two processes start on: empty, with the store file absent,
\* empty or damaged; or holding one recording that save_uploaded_file has
\* accepted (file on disk, entry Processing) and the dispatcher has not seen.
Libraries ==
    {[files |-> {}, meta |-> [kind |-> k, data |-> EmptyDict]] : k \in FileKinds \ {"json"}}
    \cup
    {[files |-> {<<SafeName(b, 0)>>},
      meta |-> _save_metadata(DictSet(EmptyDict, <<SafeName(b, 0)>>,
                                      [status |-> "Processing", model |-> m]))]
        : b \in BaseNames, m \in Models}

\* no pipeline invocation is modelled
PipeIdle ==
    /\ impl = "none"
    /\ audio = [kind |-> "none", heard |-> <<>>]
    /\ ppc = "idle"
    /\ temps = {}
    /\ temp_wav_path = None
    /\ segments = <<>>
    /\ embeddings = <<>>
    /\ valid_segments = <<>>
    /\ labels = <<>>
    /\ diarization_results = EmptyDict
    /\ ran = {}
    /\ ret = NoRet
    /\ cli = NoExit
    /\ asr_model = None

\* no process that loads the models is modelled
RegIdle ==
    /\ cuda_available = FALSE
    /\ sys_modules = "absent"
    /\ DEVICE = None
    /\ COMPUTE_TYPE = None
    /\ printed = <<>>
    /\ loads = <<>>
    /\ transcription_model = 0
    /\ voice_encoder = 0
    /\ tpc = <<>>
    /\ got = <<>>

Init ==
    /\ PipeIdle
    /\ RegIdle
    /\ now = 0
    /\ \E lib \in Libraries : files = lib.files /\ meta = lib.meta
    /\ dirs = {}
    /\ backups = {}
    /\ faults = 0
    /\ nops = 0
    /\ wpc = "poll"
    /\ files_to_process = <<>>
    /\ relative_path = NoPath
    /\ model = "base"
    /\ alive = 0
    /\ outcome = "none"
    /\ returncode = 0
    /\ stdout = NoText
    /\ stderr = NoText
    /\ transcription = NoText
    /\ status = "None"
    /\ wmeta = EmptyDict
    /\ lpc = "idle"
    /\ lop = Idle
    /\ lmeta = EmptyDict
    /\ written = {}
    /\ job_file = NoPath

Next == Dispatcher \/ Library \/ Tick

Spec == Init /\ [][Next]_vars

\* One invocation of the pipeline, of either implementation, or of the entry
\* point, on one audio input; the dispatcher and the library take no part.
PipeInit ==
    /\ impl \in {"audio_processing", "app", "cli"}
    /\ audio \in Audios
    /\ impl = "cli" => audio.kind # "none"
    /\ ppc = "start"
    /\ temps = {}
    /\ temp_wav_path = None
    /\ segments = <<>>
    /\ embeddings = <<>>
    /\ valid_segments = <<>>
    /\ labels = <<>>
    /\ diarization_results = EmptyDict
    /\ ran = {}
    /\ ret = NoRet
    /\ cli = NoExit
    /\ asr_model = None
    /\ RegIdle
    /\ now = 0
    /\ files = {}
    /\ meta = [kind |-> "missing", data |-> EmptyDict]
    /\ dirs = {}
    /\ backups = {}
    /\ faults = 0
    /\ nops = 0
    /\ wpc = "poll"
    /\ files_to_process = <<>>
    /\ relative_path = NoPath
    /\ model \in Models \cup {"base"}      \* worker.py:14: "--model", model_name
    /\ alive = 0
    /\ outcome = "none"
    /\ returncode = 0
    /\ stdout = NoText
    /\ stderr = NoText
    /\ transcription = NoText
    /\ status = "None"
    /\ wmeta = EmptyDict
    /\ lpc = "idle"
    /\ lop = Idle
    /\ lmeta = EmptyDict
    /\ written = {}
    /\ job_file = NoPath

Pipeline == Convert \/ Transcribe \/ Embed \/ Cluster \/ Assemble
Pipeline_app == Load_app \/ Transcribe_app \/ Embed_app \/ Cluster_app \/ Assemble_app

PipeNext == Pipeline \/ Pipeline_app \/ CliRun

PipeSpec == PipeInit /\ [][PipeNext]_vars

\* the dispatcher and the library at rest
DispIdle ==
    /\ now = 0
    /\ files = {}
    /\ meta = [kind |-> "missing", data |-> EmptyDict]
    /\ dirs = {}
    /\ backups = {}
    /\ faults = 0
    /\ nops = 0
    /\ wpc = "poll"
    /\ files_to_process = <<>>
    /\ relative_path = NoPath
    /\ model = "base"
    /\ alive = 0
    /\ outcome = "none"
    /\ returncode = 0
    /\ stdout = NoText
    /\ stderr = NoText
    /\ transcription = NoText
    /\ status = "None"
    /\ wmeta = EmptyDict
    /\ lpc = "idle"
    /\ lop = Idle
    /\ lmeta = EmptyDict
    /\ written = {}
    /\ job_file = NoPath

\* One process, with or without a GPU, whose threads import the module and
\* run the pipeline; nothing has been imported yet.
LoadInit ==
    /\ DispIdle
    /\ PipeIdle
    /\ cuda_available \in BOOLEAN
    /\ sys_modules = "absent"
    /\ DEVICE = None
    /\ COMPUTE_TYPE = None
    /\ printed = <<>>
    /\ loads = <<>>
    /\ transcription_model = 0
    /\ voice_encoder = 0
    /\ tpc = [t \in Threads |-> "start"]
    /\ got = [t \in Threads |-> [asr |-> 0, enc |-> 0]]

LoadNext == \E t \in Threads : Thread(t)

LoadSpec == LoadInit /\ [][LoadNext]_vars

\* The dispatcher is a running process: it is never starved, and a pipeline
\* it waits for exits or runs into the timeout.  The library acts when a user does.
FairSpec == Spec /\ WF_vars(Dispatcher)

\* The library under the calls of the web layer alone, each call with every
\* form of path a caller can write; the dispatcher does not run.
LibraryNext == Library \/ Refusals \/ CreateFolder \/ GetFileDetails \/ Tick

LibrarySpec == Init /\ [][LibraryNext]_vars

\* ------------------------------------------------------------ properties
\* the job entry stored under key k, and its status ("absent" without entry)
StoreOf(m) == _load_metadata(m).value
StatusAt(m, k) ==
    IF DictHas(StoreOf(m), k) THEN FieldGet(DictGet(StoreOf(m), k), "status", "None") ELSE "absent"
TextAt(m, k) ==
    IF DictHas(StoreOf(m), k) THEN FieldGet(DictGet(StoreOf(m), k), "transcription", <<"None">>) ELSE <<"absent">>
Terminal == {"Completed", "Failed"}

\* steps of the dispatcher, recognised in a pair of states
PollStep == wpc = "poll" /\ wpc' # "poll"
LaunchStep == alive' > alive
SkipStep ==
    /\ wpc = "loop" /\ files_to_process # <<>>
    /\ ~Exists(AUDIO_LIBRARY_PATH \o Head(files_to_process).path)
    /\ files_to_process' # files_to_process
SaveStep == wpc = "save" /\ wpc' = "loop"
LibSaveStep == lpc = "save" /\ lpc' = "idle"

\* C1: a stored status changes only Processing -> Completed or Processing ->
\* Failed; the dispatcher never writes onto an entry whose stored status is
\* terminal and never writes Processing.  (An upload that saves its own key
\* creates a job; that is not counted as a transition.)
C1_StatusTransitions ==
    [][ /\ \A k \in FilePaths :
             (StatusAt(meta, k) # "absent" /\ StatusAt(meta', k) # "absent"
                /\ StatusAt(meta', k) # StatusAt(meta, k)
                /\ ~(LibSaveStep /\ lop.op = "upload" /\ lop.key = k))
             => (StatusAt(meta, k) = "Processing" /\ StatusAt(meta', k) \in Terminal)
        /\ SaveStep => (StatusAt(meta, relative_path) \notin Terminal
                        /\ StatusAt(meta', relative_path) \in Terminal) ]_vars

C3_ExitCodeDecides ==
    outcome = "exit" =>
        IF returncode = 0
        THEN status = "Completed" /\ transcription = Strip(stdout)
        ELSE status = "Failed" /\ transcription = <<"Transcription failed: ">> \o Strip(stderr)

\* C4: the dispatcher writes each job once, launches no pipeline for a job it
\* has written, and removes no key from the store.
C4_MutatedOnce ==
    [][ /\ SaveStep => /\ relative_path \notin written
                       /\ DictKeys(StoreOf(meta)) \subseteq DictKeys(StoreOf(meta'))
        /\ LaunchStep => Head(files_to_process).path \notin written ]_vars

\* C5: a Processing job whose file is missing on disk is skipped: nothing is
\* launched or written, the rest of the cycle goes on, and the next poll lists
\* every job that is still Processing.
C5_SkipMissingFile ==
    /\ [][SkipStep =>
            /\ meta' = meta
            /\ alive' = alive
            /\ written' = written
            /\ wpc' = "loop"
            /\ files_to_process' = Tail(files_to_process)]_vars
    /\ [][(PollStep /\ wpc' = "loop") =>
            \A k \in FilePaths :
                StatusAt(meta, k) = "Processing"
                   => \E i \in DOMAIN files_to_process' : files_to_process'[i].path = k]_vars

C5_Witness ==
    /\ wpc = "loop"
    /\ relative_path # NoPath
    /\ relative_path \notin files
    /\ StatusAt(meta, relative_path) = "Processing"

\* C6: no exception leaves the dispatcher loop: after one is caught the loop
\* sleeps and polls again; a timeout, crash or non-zero exit of a pipeline
\* reaches the store only as Failed with a cause string.
ProcessError == outcome \in {"timeout", "error"} \/ (outcome = "exit" /\ returncode # 0)
HasCause(text) == Contains(Lower(text), "failed") \/ Contains(Lower(text), "error")
C6_NoExceptionEscapes ==
    /\ [](wpc # "dead")
    /\ [][wpc = "except" => wpc' \in {"except", "sleep"}]_vars
    /\ [][wpc = "sleep" => wpc' \in {"sleep", "poll"}]_vars
    /\ [](ProcessError => (status = "Failed" /\ HasCause(transcription)))
    /\ [][(SaveStep /\ ProcessError) =>
            /\ StatusAt(meta', relative_path) = "Failed"
            /\ TextAt(meta', relative_path) = transcription]_vars

C6_Witness == wpc = "except" /\ faults > 0

\* C7: the write of a job's result, and every library mutation, is a
\* read-modify-write of the store as it is when the write lands: nothing
\* another process saved in between is lost.
C7_Transactional ==
    [][ /\ SaveStep =>
             StoreOf(meta') = WithResult(StoreOf(meta), relative_path, transcription, status)
        /\ LibSaveStep => StoreOf(meta') = NewStore(lop, StoreOf(meta)) ]_vars

\* C8: jobs are handled one after another: at most one pipeline is alive, it
\* has exited or been killed before the job's result is written, and no
\* pipeline is launched while a result waits to be written.
C8_OneAtATime ==
    /\ [](/\ alive <= 1
          /\ alive = 1 => wpc = "communicate"
          /\ wpc \in {"update", "save"} => alive = 0)
    /\ [][LaunchStep => (alive = 0 /\ outcome = "none" /\ wpc = "loop")]_vars

C8_Witness ==
    /\ alive = 1
    /\ \E k \in written : k # relative_path /\ StatusAt(meta, k) \in Terminal

\* C9: the result is written under the key the library now uses for the file:
\* when a rename or move of the file has completed during the pipeline run,
\* the write goes to the file's new path.
C9_ResultUnderCurrentKey ==
    [][(SaveStep /\ lpc = "idle" /\ job_file # NoPath) => relative_path = job_file]_vars

\* C10: loading the store never raises; a damaged store is returned as empty
\* and a backup stamped with the time exists; a missing or empty store is
\* returned as empty; the store file is not modified.
C10_LoadNeverRaises ==
    [][PollStep =>
        /\ wpc' = "loop"
        /\ meta' = meta
        /\ meta.kind \in {"badjson", "badutf8"} => (files_to_process' = <<>> /\ now \in backups')
        /\ meta.kind \in {"missing", "empty"} => (files_to_process' = <<>> /\ backups' = backups)]_vars

\* ------------------------------------------------ properties of the pipeline
\* the words of a text, and of a sequence of texts, in order
Words(t) == SelectSeq(t, LAMBDA tok : ~IsSpace(tok))
RECURSIVE AllWords(_)
AllWords(texts) == IF texts = <<>> THEN <<>> ELSE Words(Head(texts)) \o AllWords(Tail(texts))
SegmentWords(segs) == AllWords([i \in DOMAIN segs |-> segs[i].text])
BlockWords(blocks) == AllWords([b \in DOMAIN blocks |-> blocks[b].text])
InText(word, t) == \E i \in DOMAIN t : t[i] = word
\* the blocks in which the text of a segment appears
BlocksWith(segment, blocks) ==
    {b \in DOMAIN blocks : \A w \in {Words(segment.text)[i] : i \in DOMAIN Words(segment.text)} :
                               InText(w, blocks[b].text)}

\* an invocation of transcribir_con_diarizacion has returned a transcript in blocks
Assembled == ppc = "done" /\ ret.how = "return" /\ ret.form = "blocks"
Unembedded(segment) == SegmentAudioLen(segment) < MinSamples \/ segment.voice = "raise"

\* C11: the blocks of the transcript partition the segment sequence: the words
\* of the blocks, read in order, are the words of the segments in their order
\* (no segment dropped, duplicated or moved).
C11_BlocksPartition ==
    Assembled => BlockWords(ret.blocks) = SegmentWords(segments)

\* C12: a segment whose span has fewer than 400 samples has no embedding and
\* takes no part in clustering, and when another segment was embedded its text
\* is still in the transcript, in a block without a speaker number.
C12_ShortSegmentsKept ==
    Assembled =>
        \A i \in DOMAIN segments :
            SegmentAudioLen(segments[i]) < MinSamples =>
                /\ \A j \in DOMAIN valid_segments : valid_segments[j] # segments[i]
                /\ BlocksWith(segments[i], ret.blocks) # {}
                /\ \A b \in BlocksWith(segments[i], ret.blocks) :
                       ret.blocks[b].speaker = "Desconocido"

\* the label clustering gave to segment i of the recording, -1 without one
AssignedLabel(i) ==
    IF \E j \in DOMAIN valid_segments : valid_segments[j] = segments[i]
    THEN labels[CHOOSE j \in DOMAIN valid_segments : valid_segments[j] = segments[i]]
    ELSE -1

\* the maximal runs of consecutive segments with one label, as blocks
RECURSIVE MaximalRuns(_, _, _)
MaximalRuns(i, blocks, last) ==
    IF i > Len(segments) THEN blocks
    ELSE IF blocks # <<>> /\ AssignedLabel(i) = last
    THEN MaximalRuns(i + 1,
             [blocks EXCEPT ![Len(blocks)].words = @ \o Words(segments[i].text)], last)
    ELSE MaximalRuns(i + 1,
             Append(blocks, [speaker |-> "Hablante " \o ToString(AssignedLabel(i) + 1),
                             words |-> Words(segments[i].text)]),
             AssignedLabel(i))

\* C13: when every segment has a label, the blocks are exactly the maximal
\* runs of consecutive segments with one label: a block ends where the label
\* changes, the last block is flushed, adjacent blocks differ in speaker, and
\* the block of label L is shown as speaker number L + 1.
C13_MaximalRuns ==
    (Assembled /\ \A i \in DOMAIN segments : ~Unembedded(segments[i])) =>
        /\ [b \in DOMAIN ret.blocks |->
               [speaker |-> ret.blocks[b].speaker, words |-> Words(ret.blocks[b].text)]]
             = MaximalRuns(1, <<>>, -1)
        /\ \A b \in 1..(Len(ret.blocks) - 1) : ret.blocks[b].speaker # ret.blocks[b + 1].speaker

\* C14: a segment without a label is a block of its own, shown as Unknown
\* ("Desconocido"), at the place of the segment: it holds that segment's text
\* only, and the texts of earlier segments are in earlier blocks, those of
\* later segments in later blocks.
C14_UnknownPassThrough ==
    (Assembled /\ impl = "audio_processing") =>
        \A i \in DOMAIN segments :
            Unembedded(segments[i]) =>
                \E b \in DOMAIN ret.blocks :
                    /\ ret.blocks[b].speaker = "Desconocido"
                    /\ Words(ret.blocks[b].text) = Words(segments[i].text)
                    /\ \A j \in DOMAIN segments :
                          /\ j < i => \E c \in 1..(b - 1) : c \in BlocksWith(segments[j], ret.blocks)
                          /\ j > i => \E c \in (b + 1)..Len(ret.blocks) : c \in BlocksWith(segments[j], ret.blocks)

\* C15: after clustering every embedded segment has exactly one label and it
\* is >= 0; the label assembly looks up for the segment is that label, and the
\* segment's text is shown under speaker number label + 1, never as Unknown.
C15_EmbeddedSegmentsLabelled ==
    ("cluster" \in ran) =>
        /\ Len(labels) = Len(valid_segments)
        /\ valid_segments = SelectSeq(segments, LAMBDA seg : ~Unembedded(seg))
        /\ \A i \in DOMAIN valid_segments : labels[i] >= 0
        /\ (impl = "audio_processing") =>
              \A i \in DOMAIN valid_segments :
                  LabelOf(diarization_results, valid_segments[i]) = labels[i]
        /\ Assembled =>
              \A i \in DOMAIN valid_segments :
                  /\ BlocksWith(valid_segments[i], ret.blocks) # {}
                  /\ \A b \in BlocksWith(valid_segments[i], ret.blocks) :
                         ret.blocks[b].speaker = "Hablante " \o ToString(labels[i] + 1)

C15_Witness ==
    /\ Assembled
    /\ impl = "audio_processing"
    /\ Len(valid_segments) < Len(segments)
    /\ \E i \in DOMAIN labels : labels[i] = 1

\* C16: when an invocation of transcribir_con_diarizacion (audio_processing.py)
\* has ended, however it ended, the temporary WAV file it created is gone.
C16_TempFilesDeleted ==
    (impl = "audio_processing" /\ ppc = "done") => TempFile \notin temps

\* C17: the entry point exits with code 0 and the transcript on stdout exactly
\* when the pipeline can transcribe the input; for a missing file, a file that
\* cannot be decoded or a failing pipeline it exits non-zero with a diagnostic
\* on stderr and nothing on stdout.
C17_ExitCodeSignals ==
    (impl = "cli" /\ ppc = "done") =>
        IF audio.kind = "ok"
        THEN cli.code = 0 /\ cli.out # NoText
        ELSE cli.code # 0 /\ cli.out = NoText /\ cli.err # NoText

\* the texts that name an input error
InputErrors == {"Error: File not found at ", "Error de FFMPEG: ",
                "An error occurred during transcription: "}

\* C18: for an audio input that is missing or cannot be decoded the dispatcher
\* records Failed with a result that describes the input error, and the
\* dispatcher loop lives on.
C18_InputErrorFailed ==
    (impl = "cli" /\ ppc = "done" /\ audio.kind \in {"missing", "corrupt"}) =>
        /\ RecordedStatus(cli) = "Failed"
        /\ \E i \in DOMAIN RecordedText(cli) : RecordedText(cli)[i] \in InputErrors
        /\ wpc # "dead"

\* C19: a recording without segments ends the pipeline at once with the
\* no-speech result (no embedding, clustering or assembly runs), and for the
\* entry point's outcome on it the dispatcher records Completed.
C19_SilenceCompleted ==
    (ppc = "done" /\ audio.kind = "ok" /\ audio.heard = <<>>) =>
        IF impl = "cli"
        THEN RecordedStatus(cli) = "Completed"
        ELSE /\ ret = Message("No se pudo transcribir el audio (posiblemente silencio).", "audio_path")
             /\ ran \cap {"embed", "cluster", "assemble"} = {}

\* C20: when there are segments and none gets an embedding, clustering and
\* assembly do not run and the invocation returns, as a normal result, the
\* texts of all segments in their order without any speaker label.
C20_PlainTextFallback ==
    (ppc = "done" /\ impl # "cli" /\ segments # <<>>
       /\ \A i \in DOMAIN segments : Unembedded(segments[i])) =>
        /\ ran \cap {"cluster", "assemble"} = {}
        /\ labels = <<>>
        /\ ret.how = "return"
        /\ ret.form = "plain"
        /\ ret.path = "audio_path"
        /\ ret.blocks = <<>>
        /\ Words(ret.text) = SegmentWords(segments)

C20_Witness ==
    /\ ppc = "done"
    /\ ret.how = "return"
    /\ ret.form = "plain"
    /\ \E i, j \in DOMAIN segments :
          /\ i < j
          /\ segments[i].voice = "raise"
          /\ SegmentAudioLen(segments[j]) < MinSamples

\* the encoder is given the span of the segment and raises on it
EmbedFails(segment) == ~(SegmentAudioLen(segment) < MinSamples) /\ segment.voice = "raise"

\* C21: when the encoder raises on one segment, that segment alone is left out
\* of clustering: every other segment the encoder accepts is embedded and gets
\* a label, the invocation returns normally, and the text of the failing
\* segment is in the returned transcript.
C21_EmbedFailureKept ==
    (impl \in {"audio_processing", "app"} /\ ppc = "done" /\ "embed" \in ran) =>
        \A i \in DOMAIN segments :
            EmbedFails(segments[i]) =>
                /\ \A j \in DOMAIN valid_segments : valid_segments[j] # segments[i]
                /\ valid_segments = SelectSeq(segments, LAMBDA seg : ~Unembedded(seg))
                /\ ("cluster" \in ran) => Len(labels) = Len(valid_segments)
                /\ ret.how = "return"
                /\ IF ret.form = "blocks"
                   THEN BlocksWith(segments[i], ret.blocks) # {}
                   ELSE \A w \in {Words(segments[i].text)[k] : k \in DOMAIN Words(segments[i].text)} :
                            InText(w, ret.text)

\* C22: the model identifier the dispatcher passes on the command line
\* (worker.py:14, the entry's model, base without one) is the model the
\* transcription runs with: the entry point, given an input that can be
\* transcribed, runs the recogniser with it, and no invocation of the pipeline
\* runs the recogniser with another one.
C22_ModelPassedThrough ==
    /\ (impl = "cli" /\ ppc = "done" /\ audio.kind = "ok") => asr_model = model
    /\ ("transcribe" \in ran) => asr_model = model

\* the messages the module body prints while it loads the models
ProgressMessages ==
    {"Cargando modelo de transcripción...", "Modelo de transcripción cargado.",
     "Cargando modelo de codificación de voz...", "Modelo de codificación de voz cargado.",
     "Cargando modelo de embeddings...", "Modelo de embeddings cargado."}
\* the process has told of a fallback to the CPU
Warned == \E i \in DOMAIN printed : printed[i] \notin ProgressMessages
Bits(precision) == IF precision = "int8" THEN 8 ELSE IF precision = "float16" THEN 16 ELSE 0

\* C24: once the device is chosen, for each mode a user can ask for: mode GPU
\* without a GPU gives device cpu and a warning, mode CPU gives device cpu with
\* or without a GPU; cpu goes with the narrower precision, cuda with the wider.
C24_DevicePolicy ==
    (sys_modules = "ready") =>
        /\ \A mode \in {"GPU", "CPU"} :
              /\ (mode = "GPU" /\ ~cuda_available) => (DEVICE = "cpu" /\ Warned)
              /\ (mode = "CPU") => DEVICE = "cpu"
        /\ DEVICE = "cpu" => Bits(COMPUTE_TYPE) = 8
        /\ DEVICE = "cuda" => Bits(COMPUTE_TYPE) = 16

C28_ProcessingEventuallyTerminal ==
    \A k \in FilePaths :
        (StatusAt(meta, k) = "Processing" /\ k \in files)
            ~> (StatusAt(meta, k) \in Terminal \/ k \notin files \/ ~DictHas(StoreOf(meta), k))

\* the fields of the entry of key k in store d
EntryOf(d, k) == DictGet(d, k)
UploadStep == lpc = "idle" /\ lpc' = "load" /\ lop'.op = "upload"

C27_UploadAddsOneEntry ==
    [][ /\ UploadStep =>
             /\ lop'.key \notin files
             /\ ~DictHas(StoreOf(meta), lop'.key)
        /\ (LibSaveStep /\ lop.op = "upload") =>
             LET after == StoreOf(meta')
             IN  /\ lop.key \in files
                 /\ ~DictHas(lmeta, lop.key)
                 /\ DictKeys(after) = DictKeys(lmeta) \cup {lop.key}
                 /\ EntryOf(after, lop.key) = [status |-> "Processing", model |-> lop.model]
                 /\ \A k \in DictKeys(lmeta) \ {lop.key} : EntryOf(after, k) = EntryOf(lmeta, k) ]_vars

\* C29: the write of a result adds no key to the store, and when the file of
\* the job has been deleted, renamed or moved by an operation that is over,
\* the store holds no entry under the job's key after the write.
C29_DispatcherNeverCreates ==
    [][SaveStep =>
         /\ DictKeys(StoreOf(meta')) \subseteq DictKeys(StoreOf(meta))
         /\ (lpc = "idle" /\ job_file # relative_path) => ~DictHas(StoreOf(meta'), relative_path) ]_vars

\* C30: the store a rename_item or move_item saves is the store it loaded with
\* every entry of the item, or under the item, at its key under the new path,
\* value unchanged: no entry is left at or under the old path, every other
\* entry is as it was, and the number of entries is the same.  (An operation
\* that returns 400, 404 or 409 takes no step.)
C30_ReKeyConsistent ==
    [][(LibSaveStep /\ lop.op \in {"rename", "move"}) =>
         LET after == StoreOf(meta')
             old == Abspath(lop.old)
         IN  /\ \A k \in DictKeys(lmeta) :
                   /\ DictHas(after, Moved(k, old, lop.new))
                   /\ EntryOf(after, Moved(k, old, lop.new)) = EntryOf(lmeta, k)
             /\ \A k \in DictKeys(after) : ~(k = old \/ StartsWithDir(k, old))
             /\ Len(after) = Len(lmeta) ]_vars

DispatcherSees(d) == {ProcessingItems(d)[i].path : i \in DOMAIN ProcessingItems(d)}

\* C33: when no library operation is under way and the store can be read,
\* every audio file that list_directory_contents shows as Processing has an
\* entry with status Processing in the store, so that the dispatcher finds it
\* at its next poll; and get_file_details shows the same status for that file
\* as list_directory_contents does.
C33_StatusViewsAgree ==
    (lpc = "idle" /\ ~_load_metadata(meta).raised) =>
        \A dir \in Folders : \A item \in list_directory_contents(dir) :
            item.type = "file" =>
                /\ item.status = "Processing" =>
                      /\ StatusAt(meta, item.path) = "Processing"
                      /\ item.path \in DispatcherSees(StoreOf(meta))
                /\ get_file_details(item.path).code = 200
                /\ get_file_details(item.path).status = item.status

\* C31: a call of save_uploaded_file, delete_recording, rename_item,
\* move_item, create_folder, get_file_details or update_transcription_metadata
\* that is given a path which holds ".." or is absolute is refused (an error
\* response, or a plain return for update_transcription_metadata): it starts
\* no operation, and the files, the folders, the store and its backups are
\* after the call as they were before.
C31_InvalidPathRefused ==
    [][ (/\ lop' # lop
         /\ "paths" \in DOMAIN lop'
         /\ \E p \in lop'.paths : HasDotDot(p) \/ IsAbs(p))
        => /\ lop'.op = "rejected"
           /\ lop'.code \in {400, NoCode}
           /\ lpc' = "idle"
           /\ UNCHANGED <<files, dirs, meta, backups>> ]_vars

\* rename_item has refused a path with ".." that leads to an item on disk
\* ("d/../a_0.wav"), and the item is still there
C31_Witness ==
    /\ lop.op = "rejected"
    /\ lop.fn = "rename_item"
    /\ \E p \in lop.paths : HasDotDot(p) /\ Normpath(<<>>, p) \in files

====
